---- MODULE Spec2Model ----
(***************************************************************************)
(* Navigation panel controller of the storage demo app (App.vue, kept in   *)
(* src/src/views/ThemePreferenceDemo.vue from line 159 on): the collapsible *)
(* sidenav whose open flag is persisted in localStorage and whose three     *)
(* sections follow the current route.                                       *)
(*                                                                          *)
(* The browser runs one task at a time (page load, a click, a navigation).  *)
(* A task runs its handler and then drains the microtasks it caused: the    *)
(* router finalizing a navigation and Vue's scheduler flushing the queued   *)
(* watcher callbacks (flush 'pre') before the component re-renders.  The    *)
(* model keeps these steps apart and lets the next task start only when     *)
(* nothing is pending.                                                      *)
(***************************************************************************)
EXTENDS Integers, Sequences, FiniteSets, TLC

\* ------------------------------------------------------------------------
\* Paths are JavaScript strings, modelled as sequences of characters so that
\* startsWith and === are computed and not assumed.
\* ------------------------------------------------------------------------
\* '/'
PathHome == <<"/">>
\* '/theme'
PathTheme == <<"/", "t", "h", "e", "m", "e">>
\* '/display-name'
PathDisplayName == <<"/", "d", "i", "s", "p", "l", "a", "y", "-", "n", "a", "m", "e">>
\* '/session-vs-local'
PathSessionVsLocal == <<"/", "s", "e", "s", "s", "i", "o", "n", "-", "v", "s", "-", "l", "o", "c", "a", "l">>
\* '/devtools'
PathDevtools == <<"/", "d", "e", "v", "t", "o", "o", "l", "s">>
\* '/practice/guided/theme'
PathGuidedTheme == <<"/", "p", "r", "a", "c", "t", "i", "c", "e", "/", "g", "u", "i", "d", "e", "d", "/", "t", "h", "e", "m", "e">>
\* '/practice/guided/display-name'
PathGuidedDisplayName == <<"/", "p", "r", "a", "c", "t", "i", "c", "e", "/", "g", "u", "i", "d", "e", "d", "/", "d", "i", "s", "p", "l", "a", "y", "-", "n", "a", "m", "e">>
\* '/practice/minimal/theme'
PathMinimalTheme == <<"/", "p", "r", "a", "c", "t", "i", "c", "e", "/", "m", "i", "n", "i", "m", "a", "l", "/", "t", "h", "e", "m", "e">>
\* '/practice/minimal/display-name'
PathMinimalDisplayName == <<"/", "p", "r", "a", "c", "t", "i", "c", "e", "/", "m", "i", "n", "i", "m", "a", "l", "/", "d", "i", "s", "p", "l", "a", "y", "-", "n", "a", "m", "e">>

\* The paths of the route table.
RouterPaths ==
    { PathHome, PathTheme, PathDisplayName, PathSessionVsLocal, PathDevtools,
      PathGuidedTheme, PathGuidedDisplayName,
      PathMinimalTheme, PathMinimalDisplayName }

\* The string literals of getSectionForRoute.
\* '/practice/guided'
PrefixGuided == <<"/", "p", "r", "a", "c", "t", "i", "c", "e", "/", "g", "u", "i", "d", "e", "d">>
\* '/practice/minimal'
PrefixMinimal == <<"/", "p", "r", "a", "c", "t", "i", "c", "e", "/", "m", "i", "n", "i", "m", "a", "l">>

\* Locations a user can type into the address bar that are not in the route
\* table as written (the router still reports them as route.path).
\* '/practice/guidedtour'
PathGuidedTour == <<"/", "p", "r", "a", "c", "t", "i", "c", "e", "/", "g", "u", "i", "d", "e", "d", "t", "o", "u", "r">>
\* '/practice/guide'
PathGuide == <<"/", "p", "r", "a", "c", "t", "i", "c", "e", "/", "g", "u", "i", "d", "e">>
\* '/theme/'
PathThemeSlash == <<"/", "t", "h", "e", "m", "e", "/">>
\* '/Theme'
PathThemeUpper == <<"/", "T", "h", "e", "m", "e">>
\* '/about'
PathAbout == <<"/", "a", "b", "o", "u", "t">>

TypedPaths ==
    { PrefixGuided, PrefixMinimal, PathGuidedTour, PathGuide,
      PathThemeSlash, PathThemeUpper, PathAbout }

\* Every location the model navigates to.
Paths == RouterPaths \cup TypedPaths

\* No path: the oldPath of the immediate watcher call (undefined), and "no
\* navigation in flight".
NoPath == << >>

\* ------------------------------------------------------------------------
\* Sections
\* ------------------------------------------------------------------------
Sections == {"demos", "practiceGuided", "practiceMinimal"}

\* getSectionForRoute's null.
NoSection == "none"

\* Variant: the demos section starts expanded.
AllCollapsed_DemosOpen == [s \in Sections |-> s = "demos"]

\* sections = reactive({demos: false, practiceGuided: false, practiceMinimal: false})
AllCollapsed == [s \in Sections |-> FALSE]

\* String.prototype.startsWith
startsWith(str, prefix) ==
    /\ Len(str) >= Len(prefix)
    /\ \A i \in 1..Len(prefix) : str[i] = prefix[i]

\* Variant: compares with === where the code uses startsWith.
getSectionForRoute_Exact(path) ==
    IF path = PrefixGuided THEN "practiceGuided"
    ELSE IF path = PrefixMinimal THEN "practiceMinimal"
    ELSE IF path \in {PathTheme, PathDisplayName, PathSessionVsLocal, PathDevtools}
         THEN "demos"
    ELSE NoSection

getSectionForRoute(path) ==
    IF startsWith(path, PrefixGuided) THEN "practiceGuided"
    ELSE IF startsWith(path, PrefixMinimal) THEN "practiceMinimal"
    ELSE IF \/ path = PathTheme
            \/ path = PathDisplayName
            \/ path = PathSessionVsLocal
            \/ path = PathDevtools
         THEN "demos"
    ELSE NoSection

\* Variant: closes the old section but never opens the new one.
RouteWatchCallback_NoOpen(secs, newPath, oldPath) ==
    LET newSection == getSectionForRoute(newPath)
        oldSection == IF oldPath # NoPath THEN getSectionForRoute(oldPath) ELSE NoSection
    IN  IF oldSection # NoSection /\ oldSection # newSection
        THEN [secs EXCEPT ![oldSection] = FALSE]
        ELSE secs

\* Variant: opens the new section but never closes the old one.
RouteWatchCallback_KeepOld(secs, newPath, oldPath) ==
    LET newSection == getSectionForRoute(newPath)
    IN  IF newSection # NoSection
        THEN [secs EXCEPT ![newSection] = TRUE]
        ELSE secs

\* The callback of watch(() => route.path, ...): the sections after it ran.
RouteWatchCallback(secs, newPath, oldPath) ==
    LET newSection == getSectionForRoute(newPath)
        oldSection == IF oldPath # NoPath THEN getSectionForRoute(oldPath) ELSE NoSection
        closed == IF oldSection # NoSection /\ oldSection # newSection
                  THEN [secs EXCEPT ![oldSection] = FALSE]
                  ELSE secs
    IN  IF newSection # NoSection
        THEN [closed EXCEPT ![newSection] = TRUE]
        ELSE closed

\* Variant: an accordion, opening a section collapses the others.
toggleSection_Accordion(secs, section, activeSection) ==
    IF section = activeSection
    THEN secs
    ELSE [s \in Sections |-> IF s = section THEN ~secs[section] ELSE FALSE]

\* Variant: without the guard on the active section.
toggleSection_NoGuard(secs, section, activeSection) ==
    [secs EXCEPT ![section] = ~secs[section]]

\* toggleSection(section), with activeSection the computed value it reads.
toggleSection(secs, section, activeSection) ==
    IF section = activeSection
    THEN secs
    ELSE [secs EXCEPT ![section] = ~secs[section]]

\* ------------------------------------------------------------------------
\* localStorage: a function from the keys present to their string values.
\* The result of getItem is << >> for null and <<v>> for the string v.
\* ------------------------------------------------------------------------
SIDENAV_OPEN_KEY == "demo.sidenavOpen"

\* What a previous visit, another page or a DevTools edit may have left under
\* the sidenav key.
StoredStrings == {"true", "false", "banana", ""}

EmptyStorage == [k \in {} |-> ""]

InitialStorages ==
    {EmptyStorage} \cup { [k \in {SIDENAV_OPEN_KEY} |-> v] : v \in StoredStrings }

getItem(ls, key) == IF key \in DOMAIN ls THEN <<ls[key]>> ELSE << >>

setItem(ls, key, value) ==
    [k \in DOMAIN ls \cup {key} |-> IF k = key THEN value ELSE ls[k]]

\* Variant: writes the flag as a digit.
String_Digit(b) == IF b THEN "1" ELSE "0"

\* String(open) of a boolean.
String(b) == IF b THEN "true" ELSE "false"

\* How the browser answers storage calls: "ok"; "quota" (setItem throws
\* QuotaExceededError, reads work); "denied" (any access to localStorage
\* throws SecurityError).
StorageModes == {"ok", "quota", "denied"}

\* Variant: tests the saved string for truthiness instead of === 'true'.
OnMountedSidenav_Truthy(ls, mode, open) ==
    IF mode = "denied"
    THEN open
    ELSE LET savedSidenav == getItem(ls, SIDENAV_OPEN_KEY)
         IN  IF savedSidenav # << >> THEN savedSidenav # <<"">> ELSE open

\* Variant: falls back to a closed panel when storage throws.
OnMountedSidenav_FailClosed(ls, mode, open) ==
    IF mode = "denied"
    THEN FALSE
    ELSE LET savedSidenav == getItem(ls, SIDENAV_OPEN_KEY)
         IN  IF savedSidenav # << >> THEN savedSidenav = <<"true">> ELSE open

\* onMounted: isSidenavOpen after the hook.  A throwing getItem leaves the
\* hook before the assignment; Vue's error handler reports it.
OnMountedSidenav(ls, mode, open) ==
    IF mode = "denied"
    THEN open
    ELSE LET savedSidenav == getItem(ls, SIDENAV_OPEN_KEY)
         IN  IF savedSidenav # << >> THEN savedSidenav = <<"true">> ELSE open

\* Variant: the watcher does not write.
SidenavWatchCallback_NoWrite(ls, mode, open) == ls

\* The callback of watch(isSidenavOpen, ...): localStorage after it ran.  A
\* throwing setItem stores nothing; Vue's error handler reports it.
SidenavWatchCallback(ls, mode, open) ==
    IF mode = "ok"
    THEN setItem(ls, SIDENAV_OPEN_KEY, String(open))
    ELSE ls

\* Variant: always closes instead of flipping.
toggleSidenav_Close(open) == FALSE

\* toggleSidenav(): the new isSidenavOpen.
toggleSidenav(open) == ~open

\* ------------------------------------------------------------------------
\* The demo pages RouterView shows: their keys, state and handlers.
\* ------------------------------------------------------------------------
THEME_KEY == "demo.theme"

DISPLAY_NAME_KEY == "demo.displayName"

SESSION_VALUE_KEY == "demo.sessionValue"

LOCAL_VALUE_KEY == "demo.localValue"

\* What the user types into a text input.
TypedTexts == {"", "Ada"}

\* The pages of the model that holds page state.
PagePaths == {PathTheme, PathDisplayName, PathSessionVsLocal, PathDevtools}

removeItem(ls, key) == [k \in DOMAIN ls \ {key} |-> ls[k]]

\* Storage.clear()
clear(ls) == [k \in {} |-> ""]

\* The router compares paths ignoring case and one trailing slash (its
\* createRouter defaults); "T" is the one upper-case character of the paths
\* in use.
Normalize(path) ==
    LET lower == [i \in 1..Len(path) |-> IF path[i] = "T" THEN "t" ELSE path[i]]
    IN  IF Len(lower) > 1 /\ lower[Len(lower)] = "/"
        THEN SubSeq(lower, 1, Len(lower) - 1)
        ELSE lower

\* The component the route table gives for a location.
PageOf(path) ==
    LET n == Normalize(path)
    IN  IF n = PathHome THEN "home"
        ELSE IF n = PathTheme THEN "theme"
        ELSE IF n = PathDisplayName THEN "displayName"
        ELSE IF n = PathSessionVsLocal THEN "sessionVsLocal"
        ELSE IF n = PathDevtools THEN "devtools"
        ELSE IF n \in {PathGuidedTheme, PathGuidedDisplayName,
                       PathMinimalTheme, PathMinimalDisplayName} THEN "practice"
        ELSE "none"

\* The refs of a page component right after setup.  storageSnapshot is << >>
\* for null and <<snapshot>> otherwise.
DefaultPage(kind) ==
    [kind |-> kind, theme |-> "light", displayName |-> "", wasRestored |-> FALSE,
     sessionValue |-> "", localValue |-> "", storageSnapshot |-> << >>]

\* The values the page watchers have seen at setup.
DefaultWatched ==
    [theme |-> "light", displayName |-> "", sessionValue |-> "", localValue |-> ""]

\* Variant: the saved theme is read but not assigned.
ThemeOnMounted_IgnoreSaved(ls, theme) == theme

\* Theme page onMounted: the theme after the hook.
ThemeOnMounted(ls, theme) ==
    LET savedTheme == getItem(ls, THEME_KEY)
    IN  IF savedTheme # << >> THEN savedTheme[1] ELSE theme

\* Variant: assigns String(savedName) without the null check.
DisplayNameOnMounted_NoNullCheck(ls, pg) ==
    LET savedName == getItem(ls, DISPLAY_NAME_KEY)
    IN  [pg EXCEPT !.displayName = IF savedName # << >> THEN savedName[1] ELSE "null",
                   !.wasRestored = TRUE]

\* Display Name page onMounted.
DisplayNameOnMounted(ls, pg) ==
    LET savedName == getItem(ls, DISPLAY_NAME_KEY)
    IN  IF savedName # << >>
        THEN [pg EXCEPT !.displayName = savedName[1], !.wasRestored = TRUE]
        ELSE pg

\* Variant: reads both values from localStorage.
SessionVsLocalOnMounted_BothLocal(ls, ss, pg) ==
    LET savedSession == getItem(ls, SESSION_VALUE_KEY)
        savedLocal == getItem(ls, LOCAL_VALUE_KEY)
    IN  [pg EXCEPT
            !.sessionValue = IF savedSession # << >> THEN savedSession[1] ELSE @,
            !.localValue = IF savedLocal # << >> THEN savedLocal[1] ELSE @]

\* Session vs Local page onMounted.
SessionVsLocalOnMounted(ls, ss, pg) ==
    LET savedSession == getItem(ss, SESSION_VALUE_KEY)
        savedLocal == getItem(ls, LOCAL_VALUE_KEY)
    IN  [pg EXCEPT
            !.sessionValue = IF savedSession # << >> THEN savedSession[1] ELSE @,
            !.localValue = IF savedLocal # << >> THEN savedLocal[1] ELSE @]

\* The page component after setup and onMounted.  With storage denied the
\* hook throws at its first storage call and the refs keep their defaults.
MountPage(kind, ls, ss, mode) ==
    IF mode = "denied" THEN DefaultPage(kind)
    ELSE IF kind = "theme"
         THEN [DefaultPage(kind) EXCEPT !.theme = ThemeOnMounted(ls, @)]
    ELSE IF kind = "displayName" THEN DisplayNameOnMounted(ls, DefaultPage(kind))
    ELSE IF kind = "sessionVsLocal" THEN SessionVsLocalOnMounted(ls, ss, DefaultPage(kind))
    ELSE DefaultPage(kind)

\* The watcher jobs queued by the assignments of onMounted.
MountJobs(pg) ==
    (IF pg.theme # DefaultWatched.theme THEN {"watchTheme"} ELSE {})
    \cup (IF pg.displayName # DefaultWatched.displayName THEN {"watchDisplayName"} ELSE {})
    \cup (IF pg.sessionValue # DefaultWatched.sessionValue THEN {"watchSession"} ELSE {})
    \cup (IF pg.localValue # DefaultWatched.localValue THEN {"watchLocal"} ELSE {})

\* toggleTheme(): the new theme.
toggleTheme(theme) == IF theme = "light" THEN "dark" ELSE "light"

\* The callbacks of the pages' watch(ref, ...): the storage after they ran.
PageWatchCallback(store, mode, key, value) ==
    IF mode = "ok" THEN setItem(store, key, value) ELSE store

\* Variant: saves only non-empty input.
DisplayNameWatchCallback_SkipEmpty(ls, mode, newName) ==
    IF newName = "" THEN ls ELSE PageWatchCallback(ls, mode, DISPLAY_NAME_KEY, newName)

\* watch(displayName, ...) callback.
DisplayNameWatchCallback(ls, mode, newName) ==
    PageWatchCallback(ls, mode, DISPLAY_NAME_KEY, newName)

\* Variant: clears localStorage only.
ClearedSession_Kept(ss) == ss

\* sessionStorage after clearAllStorage().
ClearedSession(ss) == clear(ss)

\* logStorageToConsole(): the object built from storage.key(i) and getItem.
SnapshotOf(store) == [k \in DOMAIN store |-> getItem(store, k)[1]]

\* ------------------------------------------------------------------------
\* Vue's scheduler: the jobs a reactive change queues.
\* ------------------------------------------------------------------------
PageWatchJobs == {"watchTheme", "watchDisplayName", "watchSession", "watchLocal"}

PreJobs == {"watchRoute", "watchSidenav"} \cup PageWatchJobs

Jobs == PreJobs \cup {"render"}

\* Variant: the render does not wait for the watcher jobs (flush 'post').
RenderReady_Post(q) == "render" \in q

\* The component's render job runs once no 'pre' watcher job is queued.
RenderReady(q) == "render" \in q /\ q \cap PreJobs = {}

VARIABLES
    mounted,        \* the app is loaded in the tab
    route,          \* route.path
    nav,            \* the navigation the router is resolving, or NoPath
    isSidenavOpen,  \* isSidenavOpen.value
    sections,       \* the reactive sections object
    routeOld,       \* the value the route watcher saw last
    sidenavOld,     \* the value the sidenav watcher saw last
    queue,          \* the scheduler's queued jobs
    dom,            \* what the last render put on screen
    page,           \* the refs of the page component RouterView shows
    watched,        \* the values the page's watchers saw last
    dataTheme,      \* document.documentElement.dataset.theme ("" when unset)
    localStorage,   \* window.localStorage
    sessionStorage, \* window.sessionStorage
    storageMode,    \* how the browser answers storage calls
    task,           \* the event being processed, with the state it started from
    prevTask        \* the event processed before it

vars == <<mounted, route, nav, isSidenavOpen, sections, routeOld, sidenavOld,
          queue, dom, page, watched, dataTheme, localStorage, sessionStorage,
          storageMode, task, prevTask>>

\* The state of the page component and of the document.
pageVars == <<page, watched, dataTheme>>

\* The event loop can dispatch the next event: the app is loaded and the
\* current task has no microtask left.
Idle == mounted /\ nav = NoPath /\ queue = {}

\* computed(() => getSectionForRoute(route.path))
activeSection == getSectionForRoute(route)

View == [path |-> route, sections |-> sections, open |-> isSidenavOpen]

NewTask(event, section, path) ==
    [event |-> event, section |-> section, path |-> path, route |-> route,
     open |-> isSidenavOpen, sections |-> sections, stored |-> localStorage,
     page |-> page]

Brief(t) ==
    [event |-> t.event, section |-> t.section, open |-> t.open, stored |-> t.stored]

NoTask ==
    [event |-> "none", section |-> NoSection, path |-> NoPath, route |-> NoPath,
     open |-> TRUE, sections |-> AllCollapsed, stored |-> EmptyStorage,
     page |-> DefaultPage("none")]

InitWith(modes, storages) ==
    /\ mounted = FALSE
    /\ route = PathHome
    /\ nav = NoPath
    /\ isSidenavOpen = TRUE
    /\ sections = AllCollapsed
    /\ routeOld = NoPath
    /\ sidenavOld = TRUE
    /\ queue = {}
    /\ dom = [path |-> NoPath, sections |-> AllCollapsed, open |-> TRUE]
    /\ page = DefaultPage("none")
    /\ watched = DefaultWatched
    /\ dataTheme = ""
    /\ localStorage \in storages
    /\ sessionStorage = EmptyStorage
    /\ storageMode \in modes
    /\ task = NoTask
    /\ prevTask = Brief(NoTask)

\* The key-value store is available (the case the spec assumes).
Init == InitWith({"ok"}, InitialStorages)

\* The store may also be full or blocked.
InitFail == InitWith(StorageModes, InitialStorages)

\* What a first visit or an earlier visit has left in localStorage when the
\* pages are exercised: nothing, a closed sidenav, a theme that is no theme.
PagesInitialStorages ==
    { EmptyStorage,
      [k \in {SIDENAV_OPEN_KEY} |-> "false"],
      [k \in {THEME_KEY} |-> "banana"] }

\* The pages are exercised with the store available.
InitPages == InitWith({"ok"}, PagesInitialStorages)

\* A document is created at url.  Component setup creates the state with its
\* defaults and runs the route watcher at once (immediate: true) on the
\* router's start location '/', which shows no page; the first render
\* follows, then onMounted.  The router resolves the initial navigation to
\* url afterwards.
Boot(url, event) ==
    /\ ~mounted \/ Idle
    /\ LET secs == RouteWatchCallback(AllCollapsed, PathHome, NoPath)
           open == OnMountedSidenav(localStorage, storageMode, TRUE)
       IN  /\ mounted' = TRUE
           /\ route' = PathHome
           /\ nav' = url
           /\ sections' = secs
           /\ routeOld' = PathHome
           /\ sidenavOld' = TRUE
           /\ dom' = [path |-> PathHome, sections |-> secs, open |-> TRUE]
           /\ isSidenavOpen' = open
           /\ queue' = IF open # TRUE THEN {"watchSidenav", "render"} ELSE {}
    /\ page' = DefaultPage("none")
    /\ watched' = DefaultWatched
    /\ dataTheme' = ""
    /\ prevTask' = Brief(task)
    /\ task' = [NewTask(event, NoSection, url) EXCEPT
                    !.route = NoPath, !.open = TRUE, !.sections = AllCollapsed,
                    !.page.kind = "none"]
    /\ UNCHANGED <<localStorage, storageMode>>

\* The page is loaded (or reloaded) at url: sessionStorage survives.
Load(url) ==
    /\ Boot(url, "load")
    /\ UNCHANGED sessionStorage

\* The tab is closed and the app opened at url in a new tab: the new tab
\* starts with an empty sessionStorage.
NewTab(url) ==
    /\ Boot(url, "newTab")
    /\ sessionStorage' = EmptyStorage

\* A RouterLink click or a history move asks the router for path.
Navigate(path) ==
    /\ Idle
    /\ nav' = path
    /\ prevTask' = Brief(task)
    /\ task' = NewTask("navigate", NoSection, path)
    /\ UNCHANGED <<mounted, route, isSidenavOpen, sections, routeOld, sidenavOld,
                   queue, dom, pageVars, localStorage, sessionStorage, storageMode>>

\* The router finalizes the navigation: route.path changes, which queues the
\* route watcher and the render; a location that shows another component
\* queues the render.  A navigation to the current location changes nothing.
FinalizeNavigation ==
    /\ mounted
    /\ nav # NoPath
    /\ route' = nav
    /\ nav' = NoPath
    /\ queue' = IF nav # route THEN queue \cup {"watchRoute", "render"}
                ELSE IF PageOf(nav) # page.kind THEN queue \cup {"render"}
                ELSE queue
    /\ UNCHANGED <<mounted, isSidenavOpen, sections, routeOld, sidenavOld, dom,
                   pageVars, localStorage, sessionStorage, storageMode, task, prevTask>>

\* The scheduler runs the route watcher's job: the callback is called when
\* the watched value differs from the one seen last.
RunWatchRoute ==
    /\ "watchRoute" \in queue
    /\ LET secs == IF route # routeOld
                   THEN RouteWatchCallback(sections, route, routeOld)
                   ELSE sections
       IN  /\ sections' = secs
           /\ queue' = (queue \ {"watchRoute"})
                          \cup (IF secs # sections THEN {"render"} ELSE {})
    /\ routeOld' = route
    /\ UNCHANGED <<mounted, route, nav, isSidenavOpen, sidenavOld, dom, pageVars,
                   localStorage, sessionStorage, storageMode, task, prevTask>>

\* The scheduler runs the sidenav watcher's job.
RunWatchSidenav ==
    /\ "watchSidenav" \in queue
    /\ localStorage' = IF isSidenavOpen # sidenavOld
                       THEN SidenavWatchCallback(localStorage, storageMode, isSidenavOpen)
                       ELSE localStorage
    /\ sidenavOld' = isSidenavOpen
    /\ queue' = queue \ {"watchSidenav"}
    /\ UNCHANGED <<mounted, route, nav, isSidenavOpen, sections, routeOld, dom,
                   pageVars, sessionStorage, storageMode, task, prevTask>>

\* The components re-render from the current state.  When the route shows
\* another component, RouterView creates it: its setup, its first render and
\* its onMounted hook run, and the hook's assignments queue the page's
\* watchers and a further render.
Render ==
    /\ RenderReady(queue)
    /\ dom' = View
    /\ IF PageOf(route) # page.kind
       THEN LET pg == MountPage(PageOf(route), localStorage, sessionStorage, storageMode)
            IN  /\ page' = pg
                /\ watched' = DefaultWatched
                /\ dataTheme' = IF pg.kind = "theme" /\ storageMode # "denied"
                                THEN pg.theme ELSE dataTheme
                /\ queue' = (queue \ {"render"}) \cup MountJobs(pg)
                               \cup (IF pg # DefaultPage(pg.kind) THEN {"render"} ELSE {})
       ELSE /\ queue' = queue \ {"render"}
            /\ UNCHANGED pageVars
    /\ UNCHANGED <<mounted, route, nav, isSidenavOpen, sections, routeOld,
                   sidenavOld, localStorage, sessionStorage, storageMode, task, prevTask>>

\* A click on the menu button: toggleSidenav().
ClickMenuButton ==
    /\ Idle
    /\ isSidenavOpen' = toggleSidenav(isSidenavOpen)
    /\ queue' = IF isSidenavOpen' # isSidenavOpen
                THEN {"watchSidenav", "render"} ELSE {}
    /\ prevTask' = Brief(task)
    /\ task' = NewTask("toggleSidenav", NoSection, NoPath)
    /\ UNCHANGED <<mounted, route, nav, sections, routeOld, sidenavOld, dom,
                   pageVars, localStorage, sessionStorage, storageMode>>

\* A click on a section's toggle button: toggleSection(section).
ClickSectionToggle(section) ==
    /\ Idle
    /\ sections' = toggleSection(sections, section, activeSection)
    /\ queue' = IF sections' # sections THEN {"render"} ELSE {}
    /\ prevTask' = Brief(task)
    /\ task' = NewTask("toggleSection", section, NoPath)
    /\ UNCHANGED <<mounted, route, nav, isSidenavOpen, routeOld, sidenavOld, dom,
                   pageVars, localStorage, sessionStorage, storageMode>>

\* ------------------------------------------------------------------------
\* Events and watcher jobs of the demo pages
\* ------------------------------------------------------------------------
\* The shown page of the given kind takes a user event: what every page
\* handler leaves alone.
PageEvent(kind, event) ==
    /\ Idle
    /\ page.kind = kind
    /\ prevTask' = Brief(task)
    /\ task' = NewTask(event, NoSection, NoPath)
    /\ UNCHANGED <<mounted, route, nav, isSidenavOpen, sections, routeOld,
                   sidenavOld, dom, watched, storageMode>>

\* Theme page, "Toggle Theme": toggleTheme().
ClickToggleTheme ==
    /\ PageEvent("theme", "toggleTheme")
    /\ page' = [page EXCEPT !.theme = toggleTheme(@)]
    /\ queue' = IF page'.theme # page.theme THEN {"watchTheme", "render"} ELSE {}
    /\ UNCHANGED <<dataTheme, localStorage, sessionStorage>>

\* Theme page, "Reset Preference": resetTheme().
ClickResetTheme ==
    /\ PageEvent("theme", "resetTheme")
    /\ localStorage' = removeItem(localStorage, THEME_KEY)
    /\ page' = [page EXCEPT !.theme = "light"]
    /\ dataTheme' = "light"
    /\ queue' = IF page.theme # "light" THEN {"watchTheme", "render"} ELSE {}
    /\ UNCHANGED sessionStorage

\* The scheduler runs the job of watch(theme, ...): setItem, then
\* applyThemeToPage.
RunWatchTheme ==
    /\ "watchTheme" \in queue
    /\ LET called == page.theme # watched.theme
       IN  /\ localStorage' = IF called
                              THEN PageWatchCallback(localStorage, storageMode,
                                                     THEME_KEY, page.theme)
                              ELSE localStorage
           /\ dataTheme' = IF called /\ storageMode = "ok" THEN page.theme ELSE dataTheme
    /\ watched' = [watched EXCEPT !.theme = page.theme]
    /\ queue' = queue \ {"watchTheme"}
    /\ UNCHANGED <<mounted, route, nav, isSidenavOpen, sections, routeOld, sidenavOld,
                   dom, page, sessionStorage, storageMode, task, prevTask>>

\* Display Name page: the user edits the input (v-model), leaving text.
InputDisplayName(text) ==
    /\ PageEvent("displayName", "inputName")
    /\ text # page.displayName
    /\ page' = [page EXCEPT !.displayName = text]
    /\ queue' = {"watchDisplayName", "render"}
    /\ UNCHANGED <<dataTheme, localStorage, sessionStorage>>

\* Display Name page, "Clear Saved Name": clearName().
ClickClearName ==
    /\ PageEvent("displayName", "clearName")
    /\ localStorage' = removeItem(localStorage, DISPLAY_NAME_KEY)
    /\ page' = [page EXCEPT !.displayName = "", !.wasRestored = FALSE]
    /\ queue' = (IF page.displayName # "" THEN {"watchDisplayName"} ELSE {})
                   \cup (IF page' # page THEN {"render"} ELSE {})
    /\ UNCHANGED <<dataTheme, sessionStorage>>

\* The scheduler runs the job of watch(displayName, ...).
RunWatchDisplayName ==
    /\ "watchDisplayName" \in queue
    /\ localStorage' = IF page.displayName # watched.displayName
                       THEN DisplayNameWatchCallback(localStorage, storageMode,
                                                     page.displayName)
                       ELSE localStorage
    /\ watched' = [watched EXCEPT !.displayName = page.displayName]
    /\ queue' = queue \ {"watchDisplayName"}
    /\ UNCHANGED <<mounted, route, nav, isSidenavOpen, sections, routeOld, sidenavOld,
                   dom, page, dataTheme, sessionStorage, storageMode, task, prevTask>>

\* Session vs Local page: the user edits the sessionStorage input.
InputSessionValue(text) ==
    /\ PageEvent("sessionVsLocal", "inputSession")
    /\ text # page.sessionValue
    /\ page' = [page EXCEPT !.sessionValue = text]
    /\ queue' = {"watchSession", "render"}
    /\ UNCHANGED <<dataTheme, localStorage, sessionStorage>>

\* Session vs Local page: the user edits the localStorage input.
InputLocalValue(text) ==
    /\ PageEvent("sessionVsLocal", "inputLocal")
    /\ text # page.localValue
    /\ page' = [page EXCEPT !.localValue = text]
    /\ queue' = {"watchLocal", "render"}
    /\ UNCHANGED <<dataTheme, localStorage, sessionStorage>>

\* Session vs Local page: clearSession(), clearLocal() or clearBoth().
ClickClear(session, local) ==
    /\ PageEvent("sessionVsLocal",
                 IF session /\ local THEN "clearBoth"
                 ELSE IF session THEN "clearSession" ELSE "clearLocal")
    /\ session \/ local
    /\ sessionStorage' = IF session THEN removeItem(sessionStorage, SESSION_VALUE_KEY)
                         ELSE sessionStorage
    /\ localStorage' = IF local THEN removeItem(localStorage, LOCAL_VALUE_KEY)
                       ELSE localStorage
    /\ page' = [page EXCEPT !.sessionValue = IF session THEN "" ELSE @,
                            !.localValue = IF local THEN "" ELSE @]
    /\ queue' = (IF page'.sessionValue # page.sessionValue THEN {"watchSession"} ELSE {})
                   \cup (IF page'.localValue # page.localValue THEN {"watchLocal"} ELSE {})
                   \cup (IF page' # page THEN {"render"} ELSE {})
    /\ UNCHANGED dataTheme

\* The scheduler runs the job of watch(sessionValue, ...).
RunWatchSession ==
    /\ "watchSession" \in queue
    /\ sessionStorage' = IF page.sessionValue # watched.sessionValue
                         THEN PageWatchCallback(sessionStorage, storageMode,
                                                SESSION_VALUE_KEY, page.sessionValue)
                         ELSE sessionStorage
    /\ watched' = [watched EXCEPT !.sessionValue = page.sessionValue]
    /\ queue' = queue \ {"watchSession"}
    /\ UNCHANGED <<mounted, route, nav, isSidenavOpen, sections, routeOld, sidenavOld,
                   dom, page, dataTheme, localStorage, storageMode, task, prevTask>>

\* The scheduler runs the job of watch(localValue, ...).
RunWatchLocal ==
    /\ "watchLocal" \in queue
    /\ localStorage' = IF page.localValue # watched.localValue
                       THEN PageWatchCallback(localStorage, storageMode,
                                              LOCAL_VALUE_KEY, page.localValue)
                       ELSE localStorage
    /\ watched' = [watched EXCEPT !.localValue = page.localValue]
    /\ queue' = queue \ {"watchLocal"}
    /\ UNCHANGED <<mounted, route, nav, isSidenavOpen, sections, routeOld, sidenavOld,
                   dom, page, dataTheme, sessionStorage, storageMode, task, prevTask>>

\* DevTools page, "Log storage to console": logStorageToConsole() (the
\* snapshot's timestamp is left out).
ClickLogStorage ==
    /\ PageEvent("devtools", "logStorage")
    /\ page' = [page EXCEPT !.storageSnapshot =
                    << [local |-> SnapshotOf(localStorage),
                        session |-> SnapshotOf(sessionStorage)] >>]
    /\ queue' = {"render"}
    /\ UNCHANGED <<dataTheme, localStorage, sessionStorage>>

\* DevTools page, "Clear all storage": clearAllStorage().
ClickClearAllStorage ==
    /\ PageEvent("devtools", "clearAllStorage")
    /\ localStorage' = clear(localStorage)
    /\ sessionStorage' = ClearedSession(sessionStorage)
    /\ page' = [page EXCEPT !.storageSnapshot = << >>]
    /\ queue' = IF page' # page THEN {"render"} ELSE {}
    /\ UNCHANGED dataTheme

Next ==
    \/ \E url \in Paths : Load(url)
    \/ \E path \in Paths : Navigate(path)
    \/ FinalizeNavigation
    \/ RunWatchRoute
    \/ RunWatchSidenav
    \/ Render
    \/ ClickMenuButton
    \/ \E section \in Sections : ClickSectionToggle(section)

Spec == Init /\ [][Next]_vars

SpecFail == InitFail /\ [][Next]_vars

\* The app with its demo pages, moving among the four demo routes.
NextPages ==
    \/ \E url \in PagePaths : Load(url)
    \/ \E url \in PagePaths : NewTab(url)
    \/ \E path \in PagePaths : Navigate(path)
    \/ FinalizeNavigation
    \/ RunWatchRoute
    \/ RunWatchSidenav
    \/ Render
    \/ ClickToggleTheme
    \/ ClickResetTheme
    \/ RunWatchTheme
    \/ \E text \in TypedTexts : InputDisplayName(text)
    \/ ClickClearName
    \/ RunWatchDisplayName
    \/ \E text \in TypedTexts : InputSessionValue(text)
    \/ \E text \in TypedTexts : InputLocalValue(text)
    \/ \E session, local \in BOOLEAN : ClickClear(session, local)
    \/ RunWatchSession
    \/ RunWatchLocal
    \/ ClickLogStorage
    \/ ClickClearAllStorage

SpecPages == InitPages /\ [][NextPages]_vars

\* ------------------------------------------------------------------------
\* Properties
\* ------------------------------------------------------------------------
Only(section) == [s \in Sections |-> s = section]

\* The section holding path, if any, is expanded in secs.
ActiveOpen(path, secs) ==
    getSectionForRoute(path) # NoSection => secs[getSectionForRoute(path)]

\* C1: whenever the latest route change has been reconciled and the app waits
\* for the next event, the section containing the current route is expanded,
\* whatever navigations and toggles came before.
C1_ActiveSectionExpanded ==
    Idle => (activeSection # NoSection => sections[activeSection])

\* A navigation, made after a section toggle, into a section that was
\* collapsed when the navigation started.
C1_Witness ==
    /\ Idle
    /\ task.event = "navigate"
    /\ prevTask.event = "toggleSection"
    /\ activeSection # NoSection
    /\ ~task.sections[activeSection]
    /\ sections[activeSection]

\* The route watcher's callback is being called in this step.
RouteCallbackRuns ==
    /\ "watchRoute" \in queue
    /\ "watchRoute" \notin queue'
    /\ route # routeOld

C3_ActiveToggleNoOp ==
    (task.event = "toggleSection" /\ task.section = getSectionForRoute(task.route))
        => sections = task.sections

\* The active section is clicked a second time in a row.
C3_Witness ==
    /\ Idle
    /\ task.event = "toggleSection"
    /\ task.section = getSectionForRoute(task.route)
    /\ prevTask.event = "toggleSection"
    /\ prevTask.section = task.section

\* C4: a menu-button click flips isSidenavOpen, and before the app can take
\* any further event the string form of the new value is stored under
\* 'demo.sidenavOpen'; every click changes the stored value by itself.
C4_TogglePersistsAtOnce ==
    task.event = "toggleSidenav" =>
        /\ isSidenavOpen = ~task.open
        /\ Idle =>
             /\ getItem(localStorage, SIDENAV_OPEN_KEY) = <<String(isSidenavOpen)>>
             /\ localStorage # task.stored
        /\ ~Idle =>
             \/ "watchSidenav" \in queue
             \/ getItem(localStorage, SIDENAV_OPEN_KEY) = <<String(isSidenavOpen)>>

\* A click that re-opened the panel has been stored over the "false" of the
\* click before it.
C4_Witness ==
    /\ Idle
    /\ task.event = "toggleSidenav"
    /\ prevTask.event = "toggleSidenav"
    /\ getItem(task.stored, SIDENAV_OPEN_KEY) = <<"false">>
    /\ getItem(localStorage, SIDENAV_OPEN_KEY) = <<"true">>

\* C5: after two menu-button clicks in a row isSidenavOpen is back at the
\* value it had before the first, and the stored value is its string form.
C5_ToggleTwice ==
    (Idle /\ task.event = "toggleSidenav" /\ prevTask.event = "toggleSidenav") =>
        /\ isSidenavOpen = prevTask.open
        /\ getItem(localStorage, SIDENAV_OPEN_KEY) = <<String(isSidenavOpen)>>

\* Two clicks on a first visit: nothing was stored before the first click.
C5_Witness ==
    /\ Idle
    /\ task.event = "toggleSidenav"
    /\ prevTask.event = "toggleSidenav"
    /\ getItem(prevTask.stored, SIDENAV_OPEN_KEY) = << >>
    /\ isSidenavOpen = TRUE
    /\ getItem(localStorage, SIDENAV_OPEN_KEY) = <<"true">>

\* C6 as stated: once loading has completed, localStorage is what it was
\* before the load, whatever was stored under the sidenav key.
C6_LoadNeverWrites ==
    (Idle /\ task.event = "load") => localStorage = task.stored

\* C6, amended: loading leaves localStorage as it was when the sidenav key was
\* absent or held "true" or "false"; any other stored string is replaced by
\* "false".
C6_LoadNormalises ==
    (Idle /\ task.event = "load") =>
        localStorage =
            IF getItem(task.stored, SIDENAV_OPEN_KEY) \in {<< >>, <<"true">>, <<"false">>}
            THEN task.stored
            ELSE setItem(task.stored, SIDENAV_OPEN_KEY, "false")

\* A load that found "banana" and left "false".
C6_Witness ==
    /\ Idle
    /\ task.event = "load"
    /\ getItem(task.stored, SIDENAV_OPEN_KEY) = <<"banana">>
    /\ getItem(localStorage, SIDENAV_OPEN_KEY) = <<"false">>

\* C7: after a load isSidenavOpen is true when nothing was stored under the
\* sidenav key, and otherwise true exactly when the stored string was "true".
C7_LoadedPanelState ==
    (mounted /\ task.event = "load") =>
        LET saved == getItem(task.stored, SIDENAV_OPEN_KEY)
        IN  /\ saved = << >> => isSidenavOpen
            /\ saved = <<"true">> => isSidenavOpen
            /\ saved = <<"false">> => ~isSidenavOpen
            /\ saved \notin {<< >>, <<"true">>} => ~isSidenavOpen

\* A load with the corrupted value has completed with the panel closed.
C7_Witness ==
    /\ Idle
    /\ task.event = "load"
    /\ getItem(task.stored, SIDENAV_OPEN_KEY) = <<"banana">>
    /\ ~isSidenavOpen

\* str begins with prefix: some initial part of str is prefix.
HasPrefix(str, prefix) == \E n \in 0..Len(str) : SubSeq(str, 1, n) = prefix

\* C8: getSectionForRoute gives every path one of the four outcomes: a path
\* beginning with '/practice/guided' is in practiceGuided, one beginning with
\* '/practice/minimal' in practiceMinimal, one of the four demo paths in
\* demos, and any other path ('/' among them) in no section.
C8_ClassifyRoute ==
    LET guided == HasPrefix(route, PrefixGuided)
        minimal == HasPrefix(route, PrefixMinimal)
        demo == route \in {PathTheme, PathDisplayName, PathSessionVsLocal, PathDevtools}
    IN  /\ getSectionForRoute(route) \in Sections \cup {NoSection}
        /\ guided => getSectionForRoute(route) = "practiceGuided"
        /\ minimal => getSectionForRoute(route) = "practiceMinimal"
        /\ demo => getSectionForRoute(route) = "demos"
        /\ ~(guided \/ minimal \/ demo) => getSectionForRoute(route) = NoSection
        /\ route = PathHome => getSectionForRoute(route) = NoSection

\* A path that begins with '/practice/guided' without being under that
\* directory has been classified, and its section expanded.
C8_Witness ==
    /\ Idle
    /\ route = PathGuidedTour
    /\ activeSection = "practiceGuided"
    /\ sections["practiceGuided"]

\* C9: no render and no user event sees a route whose section is collapsed:
\* what is on screen never shows it, and whenever the app can take an event
\* the route watcher has processed the current route, its section is expanded
\* and the screen shows the current state.
C9_ReconciliationAtomic ==
    /\ ActiveOpen(dom.path, dom.sections)
    /\ Idle =>
         /\ routeOld = route
         /\ ActiveOpen(route, sections)
         /\ dom = View

\* Inside a navigation task the route has changed and its section is still
\* collapsed; the screen still shows the old route.
C9_Witness ==
    /\ mounted
    /\ "watchRoute" \in queue
    /\ activeSection # NoSection
    /\ ~sections[activeSection]
    /\ dom.path # route
    /\ task.event = "navigate"

\* C10: with storage access denied a load leaves isSidenavOpen at true; a
\* menu-button click flips isSidenavOpen and leaves the sections alone also
\* when its write fails; and a load ends with exactly the section of the
\* loaded route expanded.
C10_StoreFailure ==
    /\ (storageMode = "denied" /\ mounted /\ task.event = "load") => isSidenavOpen
    /\ task.event = "toggleSidenav" =>
         /\ isSidenavOpen = ~task.open
         /\ sections = task.sections
    /\ (Idle /\ task.event = "load") =>
         sections = [s \in Sections |-> s = getSectionForRoute(task.path)]

\* Storage is denied: the load ignored the stored "false", and the click
\* after it closed the panel although nothing could be written.
C10_Witness ==
    /\ storageMode = "denied"
    /\ Idle
    /\ task.event = "toggleSidenav"
    /\ prevTask.event = "load"
    /\ task.open
    /\ ~isSidenavOpen
    /\ localStorage = task.stored
    /\ getItem(localStorage, SIDENAV_OPEN_KEY) = <<"false">>

\* C11: section state is not persisted: when a load has completed, exactly the
\* section of the loaded route is expanded, whatever was expanded before the
\* reload; and a section toggle or a navigation leaves localStorage as it was.
C11_SectionsNotPersisted ==
    /\ (Idle /\ task.event = "load") =>
          \A g \in Sections : sections[g] <=> (g = getSectionForRoute(task.path))
    /\ task.event \in {"toggleSection", "navigate"} => localStorage = task.stored

\* A reload at '/' right after the user expanded a section by hand: the
\* section is collapsed again.
C11_Witness ==
    /\ Idle
    /\ task.event = "load"
    /\ task.path = PathHome
    /\ prevTask.event = "toggleSection"
    /\ prevTask.section = "practiceMinimal"
    /\ sections = AllCollapsed

\* C19 as stated: once a navigation that changed the route has been
\* reconciled, every section other than the active one is collapsed.
C19_OthersClosedAfterNavigation ==
    (Idle /\ task.event = "navigate" /\ task.path # task.route) =>
        \A g \in Sections : g # activeSection => ~sections[g]

\* C20: a toggle of a section other than the active one flips that section
\* and leaves the other sections, isSidenavOpen, the route and localStorage as
\* they were; a menu-button click leaves every section as it was.
C20_ToggleFrame ==
    /\ (task.event = "toggleSection" /\ task.section # getSectionForRoute(task.route)) =>
          /\ sections = [task.sections EXCEPT ![task.section] = ~task.sections[task.section]]
          /\ isSidenavOpen = task.open
          /\ route = task.route
          /\ localStorage = task.stored
    /\ task.event = "toggleSidenav" => sections = task.sections

\* A section other than the active one was expanded while another section
\* was open.
C20_Witness ==
    /\ Idle
    /\ task.event = "toggleSection"
    /\ activeSection = "demos"
    /\ task.section = "practiceGuided"
    /\ task.sections = Only("demos")
    /\ sections["practiceGuided"]
    /\ sections["demos"]

\* C12 as stated: when clearName() and the auto-save it triggers have
\* completed, 'demo.displayName' is absent from localStorage, displayName is
\* '' and wasRestored is false.
C12_ClearNameRemovesKey ==
    (Idle /\ task.event = "clearName") =>
        /\ getItem(localStorage, DISPLAY_NAME_KEY) = << >>
        /\ page.displayName = ""
        /\ ~page.wasRestored

\* C13 as stated: when resetTheme() and the auto-save it triggers have
\* completed, 'demo.theme' is absent from localStorage, and the load after it
\* finds no saved theme and shows 'light'.
C13_ResetThemeRemovesKey ==
    /\ (Idle /\ task.event = "resetTheme") => getItem(localStorage, THEME_KEY) = << >>
    /\ (Idle /\ task.event = "load" /\ prevTask.event = "resetTheme"
             /\ page.kind = "theme") =>
          /\ getItem(task.stored, THEME_KEY) = << >>
          /\ page.theme = "light"

\* C14: once an edit of the display name has been processed, the value stored
\* under 'demo.displayName' is displayName, the empty string included.
C14_NameAutoSaved ==
    (Idle /\ task.event = "inputName") =>
        getItem(localStorage, DISPLAY_NAME_KEY) = <<page.displayName>>

\* The user deleted the whole name: the empty string is stored.
C14_Witness ==
    /\ Idle
    /\ task.event = "inputName"
    /\ task.page.displayName = "Ada"
    /\ page.displayName = ""
    /\ getItem(localStorage, DISPLAY_NAME_KEY) = <<"">>

\* C15: a load of the Display Name page shows the stored name with
\* wasRestored true, and '' with wasRestored false when nothing is stored; a
\* reload right after an edit shows the edited name.
C15_NameRoundTrip ==
    (Idle /\ task.event = "load" /\ page.kind = "displayName") =>
        LET savedName == getItem(task.stored, DISPLAY_NAME_KEY)
        IN  /\ savedName = << >> => (page.displayName = "" /\ ~page.wasRestored)
            /\ savedName # << >> => (page.displayName = savedName[1] /\ page.wasRestored)
            /\ prevTask.event = "inputName" =>
                 (page.displayName = task.page.displayName /\ page.wasRestored)

\* A reload right after the user typed a name.
C15_Witness ==
    /\ Idle
    /\ task.event = "load"
    /\ page.kind = "displayName"
    /\ prevTask.event = "inputName"
    /\ page.displayName = "Ada"
    /\ page.wasRestored

\* C16: after a toggleTheme() the stored theme and the document's data-theme
\* are the current theme; a load of the Theme page shows 'light' when nothing
\* is stored, the theme of before when it follows a toggle, and puts the
\* shown theme into data-theme.
C16_ThemeRoundTrip ==
    /\ (Idle /\ task.event = "toggleTheme") =>
          /\ getItem(localStorage, THEME_KEY) = <<page.theme>>
          /\ dataTheme = page.theme
    /\ (Idle /\ task.event = "load" /\ page.kind = "theme") =>
          /\ dataTheme = page.theme
          /\ getItem(task.stored, THEME_KEY) = << >> => page.theme = "light"
          /\ prevTask.event = "toggleTheme" => page.theme = task.page.theme

\* A reload right after the user switched to dark.
C16_Witness ==
    /\ Idle
    /\ task.event = "load"
    /\ page.kind = "theme"
    /\ prevTask.event = "toggleTheme"
    /\ page.theme = "dark"
    /\ dataTheme = "dark"

\* C17: on the Session vs Local page, a refresh right after typing shows both
\* values as they were; a new tab shows the local value as it was and an
\* empty session value.
C17_SessionVsLocal ==
    (Idle /\ page.kind = "sessionVsLocal"
          /\ prevTask.event \in {"inputSession", "inputLocal"}) =>
        /\ task.event = "load" =>
             /\ page.sessionValue = task.page.sessionValue
             /\ page.localValue = task.page.localValue
        /\ task.event = "newTab" =>
             /\ page.sessionValue = ""
             /\ page.localValue = task.page.localValue

\* Both inputs held text when the tab was closed.
C17_Witness ==
    /\ Idle
    /\ task.event = "newTab"
    /\ page.kind = "sessionVsLocal"
    /\ prevTask.event \in {"inputSession", "inputLocal"}
    /\ task.page.sessionValue = "Ada"
    /\ task.page.localValue = "Ada"
    /\ page.sessionValue = ""
    /\ page.localValue = "Ada"

\* C18: clearAllStorage() leaves localStorage and sessionStorage without any
\* key and storageSnapshot null; the load after it opens the panel and shows
\* the loaded page in its default state.
C18_ClearAllStorage ==
    /\ task.event = "clearAllStorage" =>
          /\ DOMAIN localStorage = {}
          /\ DOMAIN sessionStorage = {}
          /\ page.storageSnapshot = << >>
    /\ (Idle /\ task.event = "load" /\ prevTask.event = "clearAllStorage") =>
          /\ isSidenavOpen
          /\ page = DefaultPage(page.kind)
          /\ page.kind = "theme" => dataTheme = "light"

\* The panel was closed and stored as closed when storage was cleared; the
\* reload shows the Theme page.
C18_Witness ==
    /\ Idle
    /\ task.event = "load"
    /\ prevTask.event = "clearAllStorage"
    /\ ~prevTask.open
    /\ getItem(prevTask.stored, SIDENAV_OPEN_KEY) = <<"false">>
    /\ isSidenavOpen
    /\ page.kind = "theme"

====
